---- MODULE Spec2Model ----
(***************************************************************************)
(* Chan-theory structural decomposition of a price-bar series, as done by  *)
(* ChanlunAnalyzer in home/stock/stock_analysis.py: fractals, filtered     *)
(* fractals, pens, validated pens, segments and centrals.                  *)
(*                                                                         *)
(* Representation.  A bar series is the pair of sequences highs / lows     *)
(* (df['high'].values, df['low'].values); bar index i of the code (0-based)*)
(* is position i+1 of the sequences.  Prices are positive integers.  The   *)
(* code's price_change_percent is the float price_change / start_price; it *)
(* is kept exact here as that fraction, and every comparison of two such   *)
(* values is done by cross-multiplication (denominators are positive).     *)
(* The datetime fields of the code's records are df.index[i] of the bar    *)
(* index stored beside them and are not carried.                           *)
(*                                                                         *)
(* The module also holds get_minute_data of stock_chart.py: the kline      *)
(* request, the trading-hours filter, and the fallback to simulated data   *)
(* with the price cache.  A frame is the sequence of its rows, a row its   *)
(* time of day and the number of parts of its kline string.                *)
(*                                                                         *)
(* The analysis stock_chart.py runs on that frame is held as well:         *)
(* identify_fractals, identify_pens, identify_segments, identify_zhongshu, *)
(* on the frame's high and low columns.                                    *)
(***************************************************************************)
EXTENDS Integers, Sequences, FiniteSets, TLC

VARIABLES
    highs, lows,          \* df['high'], df['low'] of the series being analysed
    bar_count,            \* identify_fractals(df, bar_count)
    threshold,            \* divide_pens(..., threshold_percent) as <<num, den>>
    min_pens,             \* identify_centrals(min_pens)
    top_fractals, bottom_fractals, pens, segments, centrals,  \* analyzer fields
    filtered_fractals,    \* main: filtered_fractals = analyzer.filter_fractals(df)
    divided_pens,         \* value returned by divide_pens
    valid_pens,           \* main: valid_pens = analyzer.validate_pens()
    final_pens, iterations, all_alternating,   \* validate_pens: Pass 3 locals
    current_segments, seg_i,                   \* divide_segments: loop locals
    ret_segments,         \* main: segments = analyzer.divide_segments()
    central, cen_i,       \* identify_centrals: central built in the last window, loop index
    ret_centrals,         \* main: centrals = analyzer.identify_centrals()
    pc,                   \* position in main's stage sequence
    run,                  \* number of the analysis being run
    first,                \* outputs of the first analysis (for comparing reruns)
    symbol, days,         \* stock_chart.get_minute_data(symbol, days)
    response,             \* what requests.get gave for the 1-minute klines
    price_cache,          \* stock_chart.price_cache, as a set of <<symbol, price>>
    current_price,        \* get_minute_data: current_price
    generated,            \* argument lists of the calls of generate_simulation_data
    df,                   \* the frame get_minute_data returns
    gm_pc,                \* position in get_minute_data
    calls,                \* number of calls of get_minute_data so far
    chart_high, chart_low,        \* stock_chart.main: df['high'], df['low']
    top_fractal, bottom_fractal,  \* df['top_fractal'], df['bottom_fractal']
    chart_pens,           \* stock_chart.main: pens = identify_pens(df)
    chart_segments,       \* stock_chart.main: segments = identify_segments(df, pens)
    zhongshus,            \* stock_chart.main: zhongshus = identify_zhongshu(pens)
    chart_pc              \* position in stock_chart.main's analysis

input    == <<highs, lows, bar_count, threshold, min_pens>>
analyzer == <<top_fractals, bottom_fractals, pens, segments, centrals>>
vlocals  == <<final_pens, iterations, all_alternating>>
slocals  == <<current_segments, seg_i>>
clocals  == <<central, cen_i>>
returns  == <<filtered_fractals, divided_pens, valid_pens, ret_segments, ret_centrals>>
minute   == <<symbol, days, response, price_cache, current_price, generated, df, gm_pc, calls>>
chart    == <<chart_high, chart_low, top_fractal, bottom_fractal, chart_pens, chart_segments,
              zhongshus, chart_pc>>
analysis == <<input, analyzer, vlocals, slocals, clocals, returns, pc, run, first>>
vars     == <<input, analyzer, vlocals, slocals, clocals, returns, pc, run, first, minute, chart>>

----------------------------------------------------------------------------
(* Bounds of the model *)

NBars       == 5    \* longest series of which every one over Bars is analysed
NBarsRerun  == 4    \* the same for the analyses that are run twice
MaxPrice    == 3    \* price levels 1..MaxPrice
MaxBarCount == 2    \* fractal window radii 1..MaxBarCount
MaxMinPens  == 4    \* largest min_pens given to identify_centrals
NChartBars  == 6    \* longest frame of which every one over Bars is given to stock_chart

(* Thin bars (high = low) at every level, and the one bar spanning all levels *)
Bars == {<<p, p>> : p \in 1..MaxPrice} \cup {<<MaxPrice, 1>>}

(* threshold_percent values: the default 0.005, a large one, and zero *)
Thresholds == {<<1, 200>>, <<1, 2>>, <<0, 1>>}

None == [none |-> TRUE]

----------------------------------------------------------------------------
(* identify_fractals *)

Min2(a, b) == IF a < b THEN a ELSE b
Max2(a, b) == IF a > b THEN a ELSE b
Abs(a)     == IF a < 0 THEN 0 - a ELSE a

(* range(bar_count, len(df) - bar_count), as a sequence of 0-based indices *)
FractalRange(n, k) ==
    IF n - 2 * k > 0 THEN [j \in 1..(n - 2 * k) |-> j + k - 1] ELSE <<>>

(* variant of IsTop: neighbours compared with <= *)
IsTopNonStrict(hs, i, k) ==
    /\ \A j \in (i - k)..(i - 1) : hs[j + 1] <= hs[i + 1]
    /\ \A j \in (i + 1)..(i + k) : hs[j + 1] <= hs[i + 1]

(* (highs[i-k:i] < highs[i]).all() and (highs[i+1:i+k+1] < highs[i]).all() *)
IsTop(hs, i, k) ==
    /\ \A j \in (i - k)..(i - 1) : hs[j + 1] < hs[i + 1]
    /\ \A j \in (i + 1)..(i + k) : hs[j + 1] < hs[i + 1]

(* (lows[i-k:i] > lows[i]).all() and (lows[i+1:i+k+1] > lows[i]).all() *)
IsBottom(ls, i, k) ==
    /\ \A j \in (i - k)..(i - 1) : ls[j + 1] > ls[i + 1]
    /\ \A j \in (i + 1)..(i + k) : ls[j + 1] > ls[i + 1]

TopFractals(hs, k) ==
    LET sel == SelectSeq(FractalRange(Len(hs), k), LAMBDA i : IsTop(hs, i, k))
    IN  [j \in 1..Len(sel) |-> [index |-> sel[j], price |-> hs[sel[j] + 1]]]

BottomFractals(ls, k) ==
    LET sel == SelectSeq(FractalRange(Len(ls), k), LAMBDA i : IsBottom(ls, i, k))
    IN  [j \in 1..Len(sel) |-> [index |-> sel[j], price |-> ls[sel[j] + 1]]]

----------------------------------------------------------------------------
(* filter_fractals *)

Tagged(fs, kind) ==
    [j \in 1..Len(fs) |-> [index |-> fs[j].index, price |-> fs[j].price, type |-> kind]]

(* list.sort(key = index) is stable: x goes after every element whose index *)
(* is not greater than its own                                              *)
RECURSIVE InsertByIndex(_, _)
InsertByIndex(sorted, x) ==
    IF sorted = <<>> THEN <<x>>
    ELSE IF sorted[Len(sorted)].index <= x.index THEN Append(sorted, x)
    ELSE Append(InsertByIndex(SubSeq(sorted, 1, Len(sorted) - 1), x), sorted[Len(sorted)])

RECURSIVE SortByIndex(_)
SortByIndex(s) ==
    IF s = <<>> THEN <<>>
    ELSE InsertByIndex(SortByIndex(SubSeq(s, 1, Len(s) - 1)), s[Len(s)])

(* variant of AllFractals: the tops followed by the bottoms, not sorted *)
AllFractalsUnsorted(tops, bottoms) == Tagged(tops, "top") \o Tagged(bottoms, "bottom")

(* all_fractals after the sort *)
AllFractals(tops, bottoms) == SortByIndex(Tagged(tops, "top") \o Tagged(bottoms, "bottom"))

ReplaceLast(s, x) == [s EXCEPT ![Len(s)] = x]

(* variant of FilterStep: last_type is never updated, every candidate is kept *)
FilterStepKeepAll(filtered, f) == Append(filtered, f)

(* variant of FilterStep: a candidate of the same kind also replaces the kept *)
(* fractal when their prices are equal                                        *)
FilterStepLatest(filtered, f) ==
    IF filtered = <<>> \/ f.type # filtered[Len(filtered)].type
    THEN Append(filtered, f)
    ELSE IF f.type = "top"
         THEN IF f.price >= filtered[Len(filtered)].price THEN ReplaceLast(filtered, f) ELSE filtered
         ELSE IF f.price <= filtered[Len(filtered)].price THEN ReplaceLast(filtered, f) ELSE filtered

(* one iteration of the filtering loop; last_type is the type of the last kept fractal *)
FilterStep(filtered, f) ==
    IF filtered = <<>> \/ f.type # filtered[Len(filtered)].type
    THEN Append(filtered, f)
    ELSE IF f.type = "top"
         THEN IF f.price > filtered[Len(filtered)].price THEN ReplaceLast(filtered, f) ELSE filtered
         ELSE IF f.price < filtered[Len(filtered)].price THEN ReplaceLast(filtered, f) ELSE filtered

RECURSIVE FilterLoop(_)
FilterLoop(all) ==
    IF all = <<>> THEN <<>>
    ELSE FilterStep(FilterLoop(SubSeq(all, 1, Len(all) - 1)), all[Len(all)])

FilterFractalsOf(tops, bottoms) == FilterLoop(AllFractals(tops, bottoms))

OfType(filtered, kind) ==
    LET sel == SelectSeq(filtered, LAMBDA f : f.type = kind)
    IN  [j \in 1..Len(sel) |-> [index |-> sel[j].index, price |-> sel[j].price]]

----------------------------------------------------------------------------
(* divide_pens *)

(* price_change_percent values are fractions <<num, den>> with den > 0 *)
FracLT(a, b) == a[1] * b[2] < b[1] * a[2]
FracGE(a, b) == a[1] * b[2] >= b[1] * a[2]

(* variant of PenDirection: the direction is read off the kind of the end fractal *)
PenDirectionByKind(start, current) == IF current.type = "top" THEN "up" ELSE "down"

(* pen_direction *)
PenDirection(start, current) == IF current.price > start.price THEN "up" ELSE "down"

MakePen(start, current) ==
    [start_index |-> start.index, start_price |-> start.price, start_type |-> start.type,
     end_index |-> current.index, end_price |-> current.price, end_type |-> current.type,
     direction |-> PenDirection(start, current),
     length |-> Abs(current.index - start.index),
     price_change |-> Abs(current.price - start.price),
     price_change_percent |-> <<Abs(current.price - start.price), start.price>>]

(* variant of MeetsThreshold: the change is taken relative to the end price *)
MeetsThresholdOfEnd(start, current, t) ==
    FracGE(<<Abs(current.price - start.price), current.price>>, t)

(* price_change_percent >= threshold_percent *)
MeetsThreshold(start, current, t) ==
    FracGE(<<Abs(current.price - start.price), start.price>>, t)

(* state of the loop over filtered_fractals[1:] after its first n iterations *)
RECURSIVE DividePensLoop(_, _, _)
DividePensLoop(ff, n, t) ==
    IF n = 0 THEN [pens |-> <<>>, current_pen_start |-> ff[1]]
    ELSE LET before == DividePensLoop(ff, n - 1, t)
             current_fractal == ff[n + 1]
         IN  IF MeetsThreshold(before.current_pen_start, current_fractal, t)
             THEN [pens |-> Append(before.pens, MakePen(before.current_pen_start, current_fractal)),
                   current_pen_start |-> current_fractal]
             ELSE before

(* variant of DividePensOf: self.pens is not emptied before the loop *)
DividePensKeepOld(ff, t) == pens \o DividePensLoop(ff, Len(ff) - 1, t).pens

(* the pens divide_pens builds once it is past its length check *)
DividePensOf(ff, t) == DividePensLoop(ff, Len(ff) - 1, t).pens

----------------------------------------------------------------------------
(* validate_pens *)

MaxIterations == 5

(* variant of Pass1Step: a pen of the same direction always replaces the last *)
(* kept pen                                                                   *)
Pass1StepAlways(valid, current_pen) ==
    IF current_pen.direction = valid[Len(valid)].direction
    THEN ReplaceLast(valid, current_pen)
    ELSE Append(valid, current_pen)

(* Pass 1: one iteration of the loop over self.pens[1:] *)
Pass1Step(valid, current_pen) ==
    LET last_valid_pen == valid[Len(valid)]
    IN  IF current_pen.direction = last_valid_pen.direction
        THEN IF FracLT(last_valid_pen.price_change_percent, current_pen.price_change_percent)
             THEN IF current_pen.direction = "up"
                  THEN IF current_pen.end_price > last_valid_pen.end_price
                       THEN ReplaceLast(valid, current_pen) ELSE valid
                  ELSE IF current_pen.end_price < last_valid_pen.end_price
                       THEN ReplaceLast(valid, current_pen) ELSE valid
             ELSE valid
        ELSE Append(valid, current_pen)

RECURSIVE Pass1(_)
Pass1(ps) ==
    IF Len(ps) = 1 THEN ps
    ELSE Pass1Step(Pass1(SubSeq(ps, 1, Len(ps) - 1)), ps[Len(ps)])

(* variant of Pass2: every pen passes *)
Pass2KeepAll(valid) == valid

(* Pass 2: pens of length >= 1 *)
Pass2(valid) == SelectSeq(valid, LAMBDA pen : pen.length >= 1)

(* variant of TripleOk: a triple is well formed when its three pens share *)
(* one direction                                                          *)
TripleOkSameDirection(fp, i) ==
    /\ fp[i].direction = fp[i + 2].direction
    /\ fp[i].direction = fp[i + 1].direction

(* Pass 3: the triple around 0-based position i is well formed *)
TripleOk(fp, i) ==
    /\ fp[i].direction = fp[i + 2].direction
    /\ fp[i].direction # fp[i + 1].direction

(* 0-based positions 1..len-2 of the for loop whose triple is not well formed *)
Violations(fp) == {i \in 1..(Len(fp) - 2) : ~TripleOk(fp, i)}

FirstViolation(fp) == CHOOSE i \in Violations(fp) : \A j \in Violations(fp) : i <= j

(* min([prev, curr, next], key = price_change_percent): the first minimal one, *)
(* as the 0-based position to pop                                             *)
MinChangePos(fp, i) ==
    LET prev == fp[i].price_change_percent
        curr == fp[i + 1].price_change_percent
        next == fp[i + 2].price_change_percent
    IN  IF ~FracLT(curr, prev) /\ ~FracLT(next, prev) THEN i - 1
        ELSE IF ~FracLT(next, curr) THEN i
        ELSE i + 1

(* list.pop(p) for a 0-based position p *)
Pop(s, p) == SubSeq(s, 1, p) \o SubSeq(s, p + 2, Len(s))

(* variant of ScanPens: the middle pen of the first bad triple is removed *)
ScanPensMiddle(fp) ==
    IF Violations(fp) = {} THEN fp
    ELSE Pop(fp, FirstViolation(fp))

(* one pass of the while loop body over final_pens *)
ScanPens(fp) ==
    IF Violations(fp) = {} THEN fp
    ELSE Pop(fp, MinChangePos(fp, FirstViolation(fp)))

----------------------------------------------------------------------------
(* divide_segments *)

(* the price range of a pen as _has_overlap reads it, from its direction *)
PenHigh(pen) == IF pen.direction = "up" THEN pen.end_price ELSE pen.start_price
PenLow(pen)  == IF pen.direction = "up" THEN pen.start_price ELSE pen.end_price

(* _has_overlap: some two pens of the group have intersecting ranges *)
HasOverlap(ps) ==
    /\ Len(ps) >= 2
    /\ \E i \in 1..Len(ps) : \E j \in (i + 1)..Len(ps) :
          ~(PenHigh(ps[i]) < PenLow(ps[j]) \/ PenLow(ps[i]) > PenHigh(ps[j]))

(* variant of IsSegmentBreak: the new pen must go beyond every member pen *)
IsSegmentBreakEvery(segment, new_pen) ==
    IF new_pen.direction = segment.direction THEN FALSE
    ELSE IF segment.direction = "up"
         THEN \A n \in 1..Len(segment.pens) :
                 new_pen.end_price < Min2(segment.pens[n].start_price, segment.pens[n].end_price)
         ELSE \A n \in 1..Len(segment.pens) :
                 new_pen.end_price > Max2(segment.pens[n].start_price, segment.pens[n].end_price)

(* _is_segment_break *)
IsSegmentBreak(segment, new_pen) ==
    IF new_pen.direction = segment.direction THEN FALSE
    ELSE IF segment.direction = "up"
         THEN \E n \in 1..Len(segment.pens) :
                 new_pen.end_price < Min2(segment.pens[n].start_price, segment.pens[n].end_price)
         ELSE \E n \in 1..Len(segment.pens) :
                 new_pen.end_price > Max2(segment.pens[n].start_price, segment.pens[n].end_price)

(* the segment opened from three consecutive pens *)
SeedSegment(three) ==
    [start_index |-> three[1].start_index, start_price |-> three[1].start_price,
     end_index |-> three[3].end_index, end_price |-> three[3].end_price,
     direction |-> three[1].direction, pens |-> three]

(* variant of BreakSegment: the new segment keeps the direction of the  *)
(* broken one and holds the breaking pen only                          *)
BreakSegmentAlone(last_segment, current_pen) ==
    [start_index |-> last_segment.end_index, start_price |-> last_segment.end_price,
     end_index |-> current_pen.end_index, end_price |-> current_pen.end_price,
     direction |-> last_segment.direction,
     pens |-> <<current_pen>>]

(* the segment opened when current_pen breaks last_segment *)
BreakSegment(last_segment, current_pen) ==
    [start_index |-> last_segment.end_index, start_price |-> last_segment.end_price,
     end_index |-> current_pen.end_index, end_price |-> current_pen.end_price,
     direction |-> IF last_segment.direction = "down" THEN "up" ELSE "down",
     pens |-> <<last_segment.pens[Len(last_segment.pens)], current_pen>>]

ExtendSegment(last_segment, current_pen) ==
    [last_segment EXCEPT !.end_index = current_pen.end_index,
                         !.end_price = current_pen.end_price,
                         !.pens = Append(@, current_pen)]

(* current_segments before the loop: seeded from self.pens[:3] when they overlap *)
InitialSegments(ps) ==
    IF HasOverlap(SubSeq(ps, 1, 3)) THEN <<SeedSegment(SubSeq(ps, 1, 3))>> ELSE <<>>

(* one iteration of `for i in range(3, len(self.pens))`, i 0-based *)
SegmentStep(cs, ps, i) ==
    LET current_pen == ps[i + 1]
    IN  IF cs # <<>>
        THEN IF IsSegmentBreak(cs[Len(cs)], current_pen)
             THEN Append(cs, BreakSegment(cs[Len(cs)], current_pen))
             ELSE ReplaceLast(cs, ExtendSegment(cs[Len(cs)], current_pen))
        ELSE IF i + 2 < Len(ps) /\ HasOverlap(SubSeq(ps, i + 1, i + 3))
             THEN <<SeedSegment(SubSeq(ps, i + 1, i + 3))>>
             ELSE cs

----------------------------------------------------------------------------
(* identify_centrals *)

MinPens == 3
TimeTolerance == 5

RECURSIVE SeqMin(_)
SeqMin(s) == IF Len(s) = 1 THEN s[1] ELSE Min2(SeqMin(SubSeq(s, 1, Len(s) - 1)), s[Len(s)])
RECURSIVE SeqMax(_)
SeqMax(s) == IF Len(s) = 1 THEN s[1] ELSE Max2(SeqMax(SubSeq(s, 1, Len(s) - 1)), s[Len(s)])

UpDownUp(d)   == d[1] = "up" /\ d[2] = "down" /\ d[3] = "up"
DownUpDown(d) == d[1] = "down" /\ d[2] = "up" /\ d[3] = "down"

Directions(group) == [n \in 1..Len(group) |-> group[n].direction]

(* _is_central *)
IsCentral(group) ==
    IF Len(group) < 3 THEN FALSE
    ELSE IF ~HasOverlap(group) THEN FALSE
    ELSE IF Len(group) = 3
         THEN UpDownUp(Directions(group)) \/ DownUpDown(Directions(group))
         ELSE \E n \in 1..(Len(group) - 2) :
                 \/ UpDownUp(SubSeq(Directions(group), n, n + 2))
                 \/ DownUpDown(SubSeq(Directions(group), n, n + 2))

CentralType(group) ==
    IF UpDownUp(Directions(group)) THEN "up"
    ELSE IF DownUpDown(Directions(group)) THEN "down"
    ELSE "neutral"

(* variant of CentralHigh: the highest of the pens' highs *)
CentralHighUnion(group) == SeqMax([n \in 1..Len(group) |-> Max2(group[n].start_price, group[n].end_price)])

(* the band of a window: lowest of the pens' highs, highest of their lows *)
CentralHigh(group) == SeqMin([n \in 1..Len(group) |-> Max2(group[n].start_price, group[n].end_price)])
CentralLow(group)  == SeqMax([n \in 1..Len(group) |-> Min2(group[n].start_price, group[n].end_price)])

(* the central built from a window; mid is kept doubled (high + low) to stay integral *)
MakeCentral(group) ==
    [start_index |-> group[1].start_index, end_index |-> group[Len(group)].end_index,
     high |-> CentralHigh(group), low |-> CentralLow(group),
     mid2 |-> CentralHigh(group) + CentralLow(group),
     type |-> CentralType(group), pens |-> group,
     range |-> CentralHigh(group) - CentralLow(group)]

(* _centrals_overlap *)
CentralsOverlap(central1, central2) ==
    LET price_overlap == ~(central1.high < central2.low \/ central1.low > central2.high)
        time_overlap  == ~(\/ central1.end_index < central2.start_index - TimeTolerance
                           \/ central1.start_index > central2.end_index + TimeTolerance)
    IN  price_overlap /\ time_overlap

(* variant of MergeCentral: the merged band is the intersection of the two bands *)
MergeCentralIntersect(existing_central, new) ==
    [existing_central EXCEPT
        !.high = Min2(existing_central.high, new.high),
        !.low = Max2(existing_central.low, new.low),
        !.mid2 = Min2(existing_central.high, new.high) + Max2(existing_central.low, new.low),
        !.end_index = Max2(existing_central.end_index, new.end_index),
        !.pens = existing_central.pens \o new.pens]

(* the existing central after the new one is merged into it *)
MergeCentral(existing_central, new) ==
    [existing_central EXCEPT
        !.high = Max2(existing_central.high, new.high),
        !.low = Min2(existing_central.low, new.low),
        !.mid2 = Max2(existing_central.high, new.high) + Min2(existing_central.low, new.low),
        !.end_index = Max2(existing_central.end_index, new.end_index),
        !.pens = existing_central.pens \o new.pens]

Overlapping(cs, new) == {n \in 1..Len(cs) : CentralsOverlap(cs[n], new)}

(* merge into the first overlapping existing central, or append *)
AddCentral(cs, new) ==
    IF Overlapping(cs, new) = {} THEN Append(cs, new)
    ELSE LET n == CHOOSE m \in Overlapping(cs, new) : \A o \in Overlapping(cs, new) : m <= o
         IN  [cs EXCEPT ![n] = MergeCentral(cs[n], new)]

(* self.pens[i : i + min_pens], i 0-based *)
PenGroup(ps, i, mp) == SubSeq(ps, i + 1, i + mp)

----------------------------------------------------------------------------
(* stock_chart.get_minute_data *)

MaxCalls  == 2    \* calls of get_minute_data
MaxDays   == 2    \* days argument 1..MaxDays
MaxKlines == 2    \* longest kline list a response carries

(* a Shanghai, a Shenzhen and a Hong Kong code *)
Symbols == {"600000", "000001", "00700"}

(* current_price = None *)
NoPrice == 0

(* prices the real-time quote request can give *)
QuotePrices == {10, 20}

(* market: '1' for codes starting with 6, '116' for 5-character codes, else '0' *)
Market(sym) ==
    IF sym = "600000" THEN "1" ELSE IF sym = "00700" THEN "116" ELSE "0"

(* times of day (HHMM) of kline rows: before the open, at the open, after the   *)
(* mainland morning close, after the mainland afternoon close                   *)
KlineTimes == {900, 930, 1145, 1530}

(* a row of data['klines']: its time and the number of comma-separated parts *)
KlineRows == [index : KlineTimes, parts : {5, 7}]

(* kline lists whose rows have distinct times *)
KlineLists ==
    {k \in UNION {[1..n -> KlineRows] : n \in 0..MaxKlines} :
        \A a \in 1..Len(k) : \A b \in 1..Len(k) : a # b => k[a].index # k[b].index}

(* what the kline request can do: raise, answer with another status than 200, *)
(* answer without data or without klines, answer with a kline list            *)
Responses ==
    {[kind |-> "raises"], [kind |-> "status"], [kind |-> "no_data"]}
        \cup {[kind |-> "klines", klines |-> k] : k \in KlineLists}

(* kline_list: the rows with at least 6 parts *)
KlineList(klines) == SelectSeq(klines, LAMBDA row : row.parts >= 6)

(* df.between_time(a, b): both ends included *)
BetweenTime(rows, a, b) == SelectSeq(rows, LAMBDA row : a <= row.index /\ row.index <= b)

(* the rows inside the trading hours of the market, in time order *)
TradingRows(rows, market) ==
    IF market = "116"
    THEN SortByIndex(BetweenTime(rows, 930, 1200) \o BetweenTime(rows, 1300, 1600))
    ELSE SortByIndex(BetweenTime(rows, 930, 1130) \o BetweenTime(rows, 1300, 1500))

(* the try block reaches `return df`: status 200, klines present, and a frame *)
(* with a date column, which an empty kline_list does not give                *)
DownloadReturns(r) == r.kind = "klines" /\ KlineList(r.klines) # <<>>

InCache(cache, sym) == \E e \in cache : e[1] = sym
CachedPrice(cache, sym) == (CHOOSE e \in cache : e[1] = sym)[2]
(* price_cache[symbol] = (current_price, current_time) *)
CacheSet(cache, sym, price) == {e \in cache : e[1] # sym} \cup {<<sym, price>>}

(* the arguments of the call generate_simulation_data(symbol, days, current_price) *)
SimulationArgs(sym, d, price) == <<sym, d, price>>

(* the frame generate_simulation_data returns for its arguments *)
Simulation(args) == [source |-> "simulation", args |-> args]

MinuteIdle ==
    /\ symbol = "" /\ days = 0
    /\ response = None
    /\ price_cache = {}
    /\ current_price = NoPrice
    /\ generated = <<>>
    /\ df = None
    /\ gm_pc = "idle"
    /\ calls = 0

(* get_minute_data(symbol, days) is called *)
GetMinuteData ==
    /\ gm_pc \in {"idle", "returned"}
    /\ calls < MaxCalls
    /\ symbol' \in Symbols
    /\ days' \in 1..MaxDays
    /\ response' = None
    /\ current_price' = NoPrice
    /\ generated' = <<>>
    /\ df' = None
    /\ gm_pc' = "download"
    /\ calls' = calls + 1
    /\ UNCHANGED <<price_cache, analysis, chart>>

(* the try block: the kline request and, when it gives rows, the returned frame *)
Download ==
    /\ gm_pc = "download"
    /\ response' \in Responses
    /\ IF DownloadReturns(response')
       THEN /\ df' = [source |-> "download",
                      rows |-> TradingRows(KlineList(response'.klines), Market(symbol))]
            /\ gm_pc' = "returned"
       ELSE /\ df' = None
            /\ gm_pc' = "fallback"
    /\ UNCHANGED <<symbol, days, price_cache, current_price, generated, calls, analysis, chart>>

(* after the try block: the current price from the cache or from the quote  *)
(* request, then the simulated frame.  Whether a cached price is still      *)
(* within CACHE_EXPIRY depends on the clock; the quote request gives a      *)
(* price or nothing.                                                        *)
Fallback ==
    /\ gm_pc = "fallback"
    /\ \E valid \in BOOLEAN : \E quote \in QuotePrices \cup {NoPrice} :
          IF InCache(price_cache, symbol) /\ valid
          THEN /\ current_price' = CachedPrice(price_cache, symbol)
               /\ UNCHANGED price_cache
          ELSE /\ current_price' = quote
               /\ price_cache' = IF quote # NoPrice
                                 THEN CacheSet(price_cache, symbol, quote)
                                 ELSE price_cache
    /\ generated' = Append(generated, SimulationArgs(symbol, days, current_price'))
    /\ df' = Simulation(SimulationArgs(symbol, days, current_price'))
    /\ gm_pc' = "returned"
    /\ UNCHANGED <<symbol, days, response, calls, analysis, chart>>

----------------------------------------------------------------------------
(* stock_chart: identify_fractals, identify_pens, identify_segments and *)
(* identify_zhongshu, run by its main on the frame of get_minute_data    *)

(* the test at the 0-based row i of range(2, len(df) - 2) on df['high'] *)
ChartIsTop(h, i) ==
    /\ i >= 2 /\ i < Len(h) - 2
    /\ h[i + 1] > h[i] /\ h[i + 1] > h[i + 2]
    /\ h[i] > h[i - 1] /\ h[i + 2] > h[i + 3]

(* the same on df['low'] *)
ChartIsBottom(l, i) ==
    /\ i >= 2 /\ i < Len(l) - 2
    /\ l[i + 1] < l[i] /\ l[i + 1] < l[i + 2]
    /\ l[i] < l[i - 1] /\ l[i + 2] < l[i + 3]

(* the columns df['top_fractal'] and df['bottom_fractal'] *)
TopFractalColumn(h)    == [n \in 1..Len(h) |-> ChartIsTop(h, n - 1)]
BottomFractalColumn(l) == [n \in 1..Len(l) |-> ChartIsBottom(l, n - 1)]

(* identify_pens: the points collected from the first n rows; a row that is *)
(* both a top and a bottom gives its top only                               *)
RECURSIVE FractalPoints(_, _, _, _, _)
FractalPoints(h, l, tf, bf, n) ==
    IF n = 0 THEN <<>>
    ELSE LET rest == FractalPoints(h, l, tf, bf, n - 1)
         IN  IF tf[n] THEN Append(rest, [index |-> n - 1, price |-> h[n], type |-> "top"])
             ELSE IF bf[n] THEN Append(rest, [index |-> n - 1, price |-> l[n], type |-> "bottom"])
             ELSE rest

(* the pen appended for current_point and next_point *)
ChartPen(current_point, next_point) ==
    [start |-> current_point, end |-> next_point,
     direction |-> IF next_point.type = "top" THEN "up" ELSE "down",
     high |-> Max2(current_point.price, next_point.price),
     low |-> Min2(current_point.price, next_point.price)]

(* variant of PenStep: a pen is appended for every next point of another price *)
PenStepAnyKind(st, next_point) ==
    IF Abs(next_point.price - st.current_point.price) > 0
    THEN [pens |-> Append(st.pens, ChartPen(st.current_point, next_point)),
          current_type |-> next_point.type, current_point |-> next_point]
    ELSE st

(* one iteration of `for i in range(1, len(fractals))` *)
PenStep(st, next_point) ==
    IF next_point.type # st.current_type
    THEN IF Abs(next_point.price - st.current_point.price) > 0
         THEN [pens |-> Append(st.pens, ChartPen(st.current_point, next_point)),
               current_type |-> next_point.type, current_point |-> next_point]
         ELSE st
    ELSE st

(* pens, current_type and current_point after n iterations of the loop *)
RECURSIVE PensAfter(_, _)
PensAfter(fractals, n) ==
    IF n = 0
    THEN [pens |-> <<>>, current_type |-> fractals[1].type, current_point |-> fractals[1]]
    ELSE PenStep(PensAfter(fractals, n - 1), fractals[n + 1])

IdentifyPensOf(fractals) ==
    IF Len(fractals) < 2 THEN <<>> ELSE PensAfter(fractals, Len(fractals) - 1).pens

(* identify_zhongshu: the central of the three pens from the 0-based i *)
InitialZhongshu(ps, i) ==
    [start |-> ps[i + 1].start.index, end |-> ps[i + 3].end.index,
     high |-> Min2(Min2(ps[i + 1].high, ps[i + 2].high), ps[i + 3].high),
     low |-> Max2(Max2(ps[i + 1].low, ps[i + 2].low), ps[i + 3].low),
     pens |-> <<i, i + 1, i + 2>>]

(* variant of ExtendZhongshu: the band is widened to cover the pen *)
ExtendZhongshuWiden(z, ps, j) ==
    [z EXCEPT !.high = Max2(z.high, ps[j + 1].high),
              !.low = Min2(z.low, ps[j + 1].low),
              !.end = ps[j + 1].end.index,
              !.pens = Append(@, j)]

(* the central extended by the pen at the 0-based j *)
ExtendZhongshu(z, ps, j) ==
    [z EXCEPT !.high = Min2(z.high, ps[j + 1].high),
              !.low = Max2(z.low, ps[j + 1].low),
              !.end = ps[j + 1].end.index,
              !.pens = Append(@, j)]

(* `while j < len(pens)` from j on *)
RECURSIVE GrowZhongshu(_, _, _)
GrowZhongshu(z, ps, j) ==
    IF j < Len(ps) /\ ps[j + 1].high > z.low /\ ps[j + 1].low < z.high
    THEN GrowZhongshu(ExtendZhongshu(z, ps, j), ps, j + 1)
    ELSE z

(* zhongshus after the first n values of i in range(len(pens) - 2) *)
RECURSIVE ZhongshusAfter(_, _)
ZhongshusAfter(ps, n) ==
    IF n = 0 THEN <<>>
    ELSE LET z == InitialZhongshu(ps, n - 1)
         IN  IF z.high > z.low
             THEN Append(ZhongshusAfter(ps, n - 1), GrowZhongshu(z, ps, n + 2))
             ELSE ZhongshusAfter(ps, n - 1)

IdentifyZhongshuOf(ps) ==
    IF Len(ps) < 3 THEN <<>> ELSE ZhongshusAfter(ps, Len(ps) - 2)

(* identify_segments: the segment made of a run of pens of one direction *)
ChartSegment(current_segment, current_direction) ==
    [start |-> current_segment[1].start, end |-> current_segment[Len(current_segment)].end,
     direction |-> current_direction, pens |-> current_segment]

(* variant of CloseRun: a run of one pen gives a segment *)
CloseRunOfOne(segs, current_segment, current_direction) ==
    IF Len(current_segment) >= 1
    THEN Append(segs, ChartSegment(current_segment, current_direction))
    ELSE segs

(* the segments when a run ends: the run is a segment if it has 3 pens *)
CloseRun(segs, current_segment, current_direction) ==
    IF Len(current_segment) >= 3
    THEN Append(segs, ChartSegment(current_segment, current_direction))
    ELSE segs

(* segments, current_direction and current_segment after the pens 1..n of *)
(* `for i in range(1, len(pens))`                                          *)
RECURSIVE RunsAfter(_, _)
RunsAfter(ps, n) ==
    IF n = 0
    THEN [segments |-> <<>>, current_direction |-> ps[1].direction, current_segment |-> <<ps[1]>>]
    ELSE LET st  == RunsAfter(ps, n - 1)
             pen == ps[n + 1]
         IN  IF pen.direction = st.current_direction
             THEN [st EXCEPT !.current_segment = Append(@, pen)]
             ELSE [segments |-> CloseRun(st.segments, st.current_segment, st.current_direction),
                   current_direction |-> pen.direction,
                   current_segment |-> <<pen>>]

IdentifySegmentsOf(ps) ==
    IF Len(ps) < 3 THEN <<>>
    ELSE LET st == RunsAfter(ps, Len(ps) - 1)
         IN  CloseRun(st.segments, st.current_segment, st.current_direction)

(* no frame is being analysed *)
ChartIdle ==
    /\ chart_high = <<>> /\ chart_low = <<>>
    /\ top_fractal = <<>> /\ bottom_fractal = <<>>
    /\ chart_pens = <<>> /\ chart_segments = <<>> /\ zhongshus = <<>>
    /\ chart_pc = "idle"

(* df = identify_fractals(df) *)
ChartIdentifyFractals ==
    /\ chart_pc = "identify_fractals"
    /\ top_fractal' = TopFractalColumn(chart_high)
    /\ bottom_fractal' = BottomFractalColumn(chart_low)
    /\ chart_pc' = "identify_pens"
    /\ UNCHANGED <<chart_high, chart_low, chart_pens, chart_segments, zhongshus, minute, analysis>>

(* pens = identify_pens(df) *)
ChartIdentifyPens ==
    /\ chart_pc = "identify_pens"
    /\ chart_pens' = IdentifyPensOf(FractalPoints(chart_high, chart_low, top_fractal,
                                                   bottom_fractal, Len(chart_high)))
    /\ chart_pc' = "identify_segments"
    /\ UNCHANGED <<chart_high, chart_low, top_fractal, bottom_fractal, chart_segments, zhongshus,
                   minute, analysis>>

(* segments = identify_segments(df, pens) *)
ChartIdentifySegments ==
    /\ chart_pc = "identify_segments"
    /\ chart_segments' = IdentifySegmentsOf(chart_pens)
    /\ chart_pc' = "identify_zhongshu"
    /\ UNCHANGED <<chart_high, chart_low, top_fractal, bottom_fractal, chart_pens, zhongshus,
                   minute, analysis>>

(* zhongshus = identify_zhongshu(pens) *)
ChartIdentifyZhongshu ==
    /\ chart_pc = "identify_zhongshu"
    /\ zhongshus' = IdentifyZhongshuOf(chart_pens)
    /\ chart_pc' = "plot"
    /\ UNCHANGED <<chart_high, chart_low, top_fractal, bottom_fractal, chart_pens, chart_segments,
                   minute, analysis>>

NextChart ==
    \/ ChartIdentifyFractals
    \/ ChartIdentifyPens
    \/ ChartIdentifySegments
    \/ ChartIdentifyZhongshu

----------------------------------------------------------------------------
(* The analyzer and main's stage sequence *)

Stages == {"identify_fractals", "filter_fractals", "divide_pens", "validate_pens",
           "validate_pass3", "divide_segments", "segments_loop", "identify_centrals",
           "centrals_loop", "done"}

(* every series of n bars over the bar set b, as <<highs, lows>> *)
SeriesOver(b, n) ==
    {<<[i \in 1..n |-> s[i][1]], [i \in 1..n |-> s[i][2]]>> : s \in [1..n -> b]}

(* ChanlunAnalyzer() followed by the start of main's analysis of one series *)
InitOf(series, window_sizes) ==
    /\ \E s \in series : highs = s[1] /\ lows = s[2]
    /\ bar_count \in 1..MaxBarCount
    /\ threshold \in Thresholds
    /\ min_pens \in window_sizes
    /\ top_fractals = <<>> /\ bottom_fractals = <<>>
    /\ pens = <<>> /\ segments = <<>> /\ centrals = <<>>
    /\ filtered_fractals = <<>> /\ divided_pens = <<>> /\ valid_pens = <<>>
    /\ ret_segments = <<>> /\ ret_centrals = <<>>
    /\ final_pens = <<>> /\ iterations = 0 /\ all_alternating = FALSE
    /\ current_segments = <<>> /\ seg_i = 0
    /\ central = None /\ cen_i = 0
    /\ pc = "identify_fractals"
    /\ run = 1
    /\ first = None
    /\ MinuteIdle
    /\ ChartIdle

(* main calls identify_centrals() with the default min_pens *)
InitWith(series) == InitOf(series, {MinPens})

(* Scenario A of the specification: highs of two peaks, thin bars, 13 bars *)
ScenarioA ==
    <<<<1, 2, 3, 5, 3, 2, 1, 2, 3, 5, 3, 2, 1>>, <<1, 2, 3, 5, 3, 2, 1, 2, 3, 5, 3, 2, 1>>>>

(* a 15-bar series whose first three validated pens have pairwise disjoint ranges *)
GapSeries ==
    <<<<5, 4, 6, 5, 16, 16, 16, 9, 10, 8, 9, 7, 9, 7, 8>>,
      <<3, 2, 3, 3, 15, 14, 15, 9, 9, 8, 9, 7, 9, 7, 8>>>>

(* a 10-bar series of thin bars with five central windows *)
WidenSeries ==
    <<<<1, 2, 1, 4, 3, 4, 1, 3, 1, 2>>, <<1, 2, 1, 4, 3, 4, 1, 3, 1, 2>>>>

(* a 7-bar series whose bar 3 is both a top and a bottom fractal *)
OutsideBarSeries ==
    <<<<2, 1, 2, 3, 2, 3, 1>>, <<2, 1, 2, 1, 2, 1, 1>>>>

(* a 7-bar series of thin bars whose fourth pen breaks the first segment *)
BreakSeries ==
    <<<<1, 2, 1, 2, 1, 3, 1>>, <<1, 2, 1, 2, 1, 3, 1>>>>

(* Scenario B of the specification: 10 strictly rising bars then 10 strictly *)
(* falling bars, highs 11..20 then 19..10, each low one below its high       *)
ScenarioB ==
    <<[i \in 1..20 |-> IF i <= 10 THEN 10 + i ELSE 30 - i],
      [i \in 1..20 |-> IF i <= 10 THEN 9 + i ELSE 29 - i]>>

(* an 8-bar series of thin bars whose only fractals are a top and a bottom *)
(* at the same price                                                      *)
LevelSeries ==
    <<<<1, 2, 1, 1, 3, 3, 2, 3>>, <<1, 2, 1, 1, 3, 3, 2, 3>>>>

(* a 7-bar series of thin bars whose fourth pen ends above the second and *)
(* third pens of the first segment but not above the first               *)
PartBreakSeries ==
    <<<<1, 3, 1, 2, 1, 3, 1>>, <<1, 3, 1, 2, 1, 3, 1>>>>

(* a 10-bar series of thin bars with two tops at one price followed by two *)
(* bottoms, the second lower                                              *)
RunsSeries ==
    <<<<3, 4, 3, 3, 4, 2, 3, 3, 1, 3>>, <<3, 4, 3, 3, 4, 2, 3, 3, 1, 3>>>>

(* a 12-bar series of thin bars that gives three up pens in a row at the *)
(* threshold 1/2: 1 -> 2, 2 -> 3 and 3 -> 7                               *)
RepairSeries ==
    <<<<2, 1, 2, 1, 1, 3, 3, 2, 3, 2, 7, 1>>, <<2, 1, 2, 1, 1, 3, 3, 2, 3, 2, 7, 1>>>>

(* an 8-bar series whose bar 3 is both a top and a bottom: at threshold 0 *)
(* the pens are up, down of length 0, up, down                            *)
OutsideRepairSeries ==
    <<<<3, 1, 2, 4, 3, 4, 2, 4>>, <<2, 1, 2, 1, 2, 4, 2, 4>>>>

(* a 14-bar series with the bars 1, 3 and 5 both a top and a bottom: at   *)
(* threshold 0 three of its eleven pens have length 0                     *)
ExhaustSeries ==
    <<<<2, 5, 3, 5, 4, 5, 3, 4, 3, 4, 2, 4, 3, 3>>,
      <<2, 1, 2, 1, 3, 1, 2, 3, 1, 3, 2, 3, 1, 3>>>>

(* a 16-bar series whose validated pens at threshold 0 are up, up, down, up *)
NeutralSeries ==
    <<<<3, 5, 3, 4, 3, 4, 3, 4, 3, 4, 5, 2, 4, 2, 4, 3>>,
      <<2, 1, 1, 3, 1, 4, 1, 3, 1, 2, 1, 2, 4, 2, 4, 2>>>>

Fixtures == {ScenarioA, ScenarioB, GapSeries, WidenSeries, OutsideBarSeries, BreakSeries,
             LevelSeries, PartBreakSeries, RunsSeries, RepairSeries,
             OutsideRepairSeries, ExhaustSeries, NeutralSeries}

(* every series of 1..len bars over Bars, and the named series *)
SeriesUpTo(len) == UNION {SeriesOver(Bars, n) : n \in 1..len} \cup Fixtures

Init == InitWith(SeriesUpTo(NBars))

IdentifyFractals ==
    /\ pc = "identify_fractals"
    /\ top_fractals' = TopFractals(highs, bar_count)
    /\ bottom_fractals' = BottomFractals(lows, bar_count)
    /\ pc' = "filter_fractals"
    /\ UNCHANGED <<input, pens, segments, centrals, vlocals, slocals, clocals, returns, run, first>>
    /\ UNCHANGED <<minute, chart>>

FilterFractals ==
    /\ pc = "filter_fractals"
    /\ filtered_fractals' = FilterFractalsOf(top_fractals, bottom_fractals)
    /\ top_fractals' = OfType(filtered_fractals', "top")
    /\ bottom_fractals' = OfType(filtered_fractals', "bottom")
    /\ pc' = "divide_pens"
    /\ UNCHANGED <<input, pens, segments, centrals, vlocals, slocals, clocals,
                   divided_pens, valid_pens, ret_segments, ret_centrals, run, first>>
    /\ UNCHANGED <<minute, chart>>

DividePens ==
    /\ pc = "divide_pens"
    /\ IF Len(filtered_fractals) < 2
       THEN /\ divided_pens' = <<>>
            /\ UNCHANGED pens
       ELSE /\ pens' = DividePensOf(filtered_fractals, threshold)
            /\ divided_pens' = pens'
    /\ pc' = "validate_pens"
    /\ UNCHANGED <<input, top_fractals, bottom_fractals, segments, centrals, vlocals, slocals,
                   clocals, filtered_fractals, valid_pens, ret_segments, ret_centrals, run, first>>
    /\ UNCHANGED <<minute, chart>>

(* validate_pens up to the Pass 3 loop; with fewer than 3 pens left it returns at once *)
ValidatePens ==
    /\ pc = "validate_pens"
    /\ IF Len(pens) < 2
       THEN /\ valid_pens' = pens
            /\ pc' = "divide_segments"
            /\ UNCHANGED <<pens, vlocals>>
       ELSE /\ final_pens' = Pass2(Pass1(pens))
            /\ IF Len(final_pens') >= 3
               THEN /\ all_alternating' = FALSE
                    /\ iterations' = 0
                    /\ pc' = "validate_pass3"
                    /\ UNCHANGED <<pens, valid_pens>>
               ELSE /\ pens' = final_pens'
                    /\ valid_pens' = final_pens'
                    /\ pc' = "divide_segments"
                    /\ UNCHANGED <<all_alternating, iterations>>
    /\ UNCHANGED <<input, top_fractals, bottom_fractals, segments, centrals, slocals, clocals,
                   filtered_fractals, divided_pens, ret_segments, ret_centrals, run, first>>
    /\ UNCHANGED <<minute, chart>>

(* one pass of `while not all_alternating and iterations < max_iterations` *)
ValidateScan ==
    /\ pc = "validate_pass3"
    /\ ~all_alternating /\ iterations < MaxIterations
    /\ all_alternating' = (Violations(final_pens) = {})
    /\ final_pens' = ScanPens(final_pens)
    /\ iterations' = iterations + 1
    /\ UNCHANGED <<input, analyzer, slocals, clocals, returns, pc, run, first>>
    /\ UNCHANGED <<minute, chart>>

ValidateReturn ==
    /\ pc = "validate_pass3"
    /\ ~(~all_alternating /\ iterations < MaxIterations)
    /\ pens' = final_pens
    /\ valid_pens' = final_pens
    /\ pc' = "divide_segments"
    /\ UNCHANGED <<input, top_fractals, bottom_fractals, segments, centrals, vlocals, slocals,
                   clocals, filtered_fractals, divided_pens, ret_segments, ret_centrals, run, first>>
    /\ UNCHANGED <<minute, chart>>

(* variant of DivideSegments: the length check passes two pens, and the first *)
(* segment is opened from the slice self.pens[:3] whatever its length        *)
DivideSegmentsFromTwo ==
    /\ pc = "divide_segments"
    /\ IF Len(pens) < 2
       THEN /\ ret_segments' = <<>>
            /\ pc' = "identify_centrals"
            /\ UNCHANGED <<segments, slocals>>
       ELSE /\ segments' = <<>>
            /\ current_segments' =
                  LET slice == SubSeq(pens, 1, Min2(3, Len(pens)))
                  IN  IF HasOverlap(slice)
                      THEN <<[start_index |-> slice[1].start_index,
                              start_price |-> slice[1].start_price,
                              end_index |-> slice[Len(slice)].end_index,
                              end_price |-> slice[Len(slice)].end_price,
                              direction |-> slice[1].direction, pens |-> slice]>>
                      ELSE <<>>
            /\ seg_i' = 3
            /\ pc' = "segments_loop"
            /\ UNCHANGED ret_segments
    /\ UNCHANGED <<input, top_fractals, bottom_fractals, pens, centrals, vlocals, clocals,
                   filtered_fractals, divided_pens, valid_pens, ret_centrals, run, first>>
    /\ UNCHANGED <<minute, chart>>

(* divide_segments up to its loop *)
DivideSegments ==
    /\ pc = "divide_segments"
    /\ IF Len(pens) < 3
       THEN /\ ret_segments' = <<>>
            /\ pc' = "identify_centrals"
            /\ UNCHANGED <<segments, slocals>>
       ELSE /\ segments' = <<>>
            /\ current_segments' = InitialSegments(pens)
            /\ seg_i' = 3
            /\ pc' = "segments_loop"
            /\ UNCHANGED ret_segments
    /\ UNCHANGED <<input, top_fractals, bottom_fractals, pens, centrals, vlocals, clocals,
                   filtered_fractals, divided_pens, valid_pens, ret_centrals, run, first>>
    /\ UNCHANGED <<minute, chart>>

SegmentsPen ==
    /\ pc = "segments_loop"
    /\ seg_i < Len(pens)
    /\ current_segments' = SegmentStep(current_segments, pens, seg_i)
    /\ seg_i' = seg_i + 1
    /\ UNCHANGED <<input, analyzer, vlocals, clocals, returns, pc, run, first>>
    /\ UNCHANGED <<minute, chart>>

SegmentsReturn ==
    /\ pc = "segments_loop"
    /\ seg_i >= Len(pens)
    /\ segments' = current_segments
    /\ ret_segments' = current_segments
    /\ pc' = "identify_centrals"
    /\ UNCHANGED <<input, top_fractals, bottom_fractals, pens, centrals, vlocals, slocals, clocals,
                   filtered_fractals, divided_pens, valid_pens, ret_centrals, run, first>>
    /\ UNCHANGED <<minute, chart>>

(* identify_centrals up to its loop *)
IdentifyCentrals ==
    /\ pc = "identify_centrals"
    /\ IF Len(pens) < min_pens
       THEN /\ ret_centrals' = <<>>
            /\ pc' = "done"
            /\ UNCHANGED <<centrals, clocals>>
       ELSE /\ centrals' = <<>>
            /\ central' = None
            /\ cen_i' = 0
            /\ pc' = "centrals_loop"
            /\ UNCHANGED ret_centrals
    /\ UNCHANGED <<input, top_fractals, bottom_fractals, pens, segments, vlocals, slocals,
                   filtered_fractals, divided_pens, valid_pens, ret_segments, run, first>>
    /\ UNCHANGED <<minute, chart>>

(* one window of `for i in range(len(self.pens) - min_pens + 1)` *)
CentralsWindow ==
    /\ pc = "centrals_loop"
    /\ cen_i < Len(pens) - min_pens + 1
    /\ IF IsCentral(PenGroup(pens, cen_i, min_pens))
       THEN /\ central' = MakeCentral(PenGroup(pens, cen_i, min_pens))
            /\ centrals' = AddCentral(centrals, central')
       ELSE /\ central' = None
            /\ UNCHANGED centrals
    /\ cen_i' = cen_i + 1
    /\ UNCHANGED <<input, top_fractals, bottom_fractals, pens, segments, vlocals, slocals,
                   returns, pc, run, first>>
    /\ UNCHANGED <<minute, chart>>

CentralsReturn ==
    /\ pc = "centrals_loop"
    /\ cen_i >= Len(pens) - min_pens + 1
    /\ ret_centrals' = centrals
    /\ pc' = "done"
    /\ UNCHANGED <<input, analyzer, vlocals, slocals, clocals,
                   filtered_fractals, divided_pens, valid_pens, ret_segments, run, first>>
    /\ UNCHANGED <<minute, chart>>

Next ==
    \/ IdentifyFractals
    \/ FilterFractals
    \/ DividePens
    \/ ValidatePens
    \/ ValidateScan
    \/ ValidateReturn
    \/ DivideSegments
    \/ SegmentsPen
    \/ SegmentsReturn
    \/ IdentifyCentrals
    \/ CentralsWindow
    \/ CentralsReturn

Spec == Init /\ [][Next]_vars

(* Reruns: main's stage sequence run again on the same series and thresholds *)
MaxRuns == 2

Outputs == <<filtered_fractals, top_fractals, bottom_fractals, valid_pens, pens,
             ret_segments, segments, ret_centrals, centrals>>

(* the stage sequence is started again on the analyzer that has just been used *)
RerunSame ==
    /\ pc = "done"
    /\ run < MaxRuns
    /\ first' = [outputs |-> IF run = 1 THEN Outputs ELSE first.outputs, fresh |-> FALSE]
    /\ run' = run + 1
    /\ pc' = "identify_fractals"
    /\ UNCHANGED <<input, analyzer, vlocals, slocals, clocals, returns>>
    /\ UNCHANGED <<minute, chart>>

(* the stage sequence is started again on a new ChanlunAnalyzer() *)
RerunFresh ==
    /\ pc = "done"
    /\ run < MaxRuns
    /\ first' = [outputs |-> IF run = 1 THEN Outputs ELSE first.outputs, fresh |-> TRUE]
    /\ run' = run + 1
    /\ pc' = "identify_fractals"
    /\ top_fractals' = <<>> /\ bottom_fractals' = <<>>
    /\ pens' = <<>> /\ segments' = <<>> /\ centrals' = <<>>
    /\ UNCHANGED <<input, vlocals, slocals, clocals, returns>>
    /\ UNCHANGED <<minute, chart>>

NextRerun == Next \/ RerunSame \/ RerunFresh

InitRerun == InitWith(SeriesUpTo(NBarsRerun))

SpecRerun == InitRerun /\ [][NextRerun]_vars

(* Reuse: one analyzer analyses a series after it has analysed another one *)

(* the pens, segments and centrals of an analysis: the values main receives *)
(* and the analyzer's fields                                               *)
Results == <<valid_pens, pens, ret_segments, segments, ret_centrals, centrals>>

(* the series has been analysed on a new analyzer; a second new            *)
(* ChanlunAnalyzer() now starts on another series, with the same thresholds *)
AnalyseOther ==
    /\ pc = "done"
    /\ run = 1
    /\ \E s \in Fixtures :
          /\ s # <<highs, lows>>
          /\ highs' = s[1]
          /\ lows' = s[2]
    /\ first' = [results |-> Results, series |-> <<highs, lows>>]
    /\ run' = 2
    /\ pc' = "identify_fractals"
    /\ top_fractals' = <<>> /\ bottom_fractals' = <<>>
    /\ pens' = <<>> /\ segments' = <<>> /\ centrals' = <<>>
    /\ UNCHANGED <<bar_count, threshold, min_pens, vlocals, slocals, clocals, returns>>
    /\ UNCHANGED <<minute, chart>>

(* the analyzer that has analysed the other series is given the first one *)
AnalyseAfterOther ==
    /\ pc = "done"
    /\ run = 2
    /\ highs' = first.series[1]
    /\ lows' = first.series[2]
    /\ run' = 3
    /\ pc' = "identify_fractals"
    /\ UNCHANGED <<bar_count, threshold, min_pens, analyzer, vlocals, slocals, clocals, returns, first>>
    /\ UNCHANGED <<minute, chart>>

NextReuse == Next \/ AnalyseOther \/ AnalyseAfterOther

SpecReuse == InitRerun /\ [][NextReuse]_vars

(* Calls of stock_chart.get_minute_data, no analysis being run *)
NextMinute == GetMinuteData \/ Download \/ Fallback

AnalysisIdle ==
    /\ highs = <<>> /\ lows = <<>>
    /\ bar_count = 1
    /\ threshold = <<1, 200>>
    /\ min_pens = MinPens
    /\ top_fractals = <<>> /\ bottom_fractals = <<>>
    /\ pens = <<>> /\ segments = <<>> /\ centrals = <<>>
    /\ filtered_fractals = <<>> /\ divided_pens = <<>> /\ valid_pens = <<>>
    /\ ret_segments = <<>> /\ ret_centrals = <<>>
    /\ final_pens = <<>> /\ iterations = 0 /\ all_alternating = FALSE
    /\ current_segments = <<>> /\ seg_i = 0
    /\ central = None /\ cen_i = 0
    /\ pc = "done"
    /\ run = 1
    /\ first = None

InitMinute ==
    /\ AnalysisIdle
    /\ MinuteIdle
    /\ ChartIdle

SpecMinute == InitMinute /\ [][NextMinute]_vars

(* The stages run by a caller that gives identify_centrals a min_pens above *)
(* the default                                                             *)
InitMinPens == InitOf(SeriesUpTo(NBarsRerun), (MinPens + 1)..MaxMinPens)

SpecMinPens == InitMinPens /\ [][Next]_vars

(* The analysis of stock_chart's main on the frame it was given: every frame *)
(* of 1..NChartBars bars over Bars, and the named frames                     *)

(* a 36-bar frame of thin bars: six pens between narrowing extremes, a top   *)
(* after a top (row 17), a bottom at the price of the top before it (row 26) *)
ZigzagFrame ==
    <<<<6, 4, 2, 7, 12, 8, 4, 7, 10, 8, 6, 7, 8, 7, 5, 5, 9, 14, 12, 10, 11, 13, 12, 11,
        15, 14, 13, 14, 15, 16, 15, 14, 13, 12, 13, 14>>,
      <<6, 4, 2, 7, 12, 8, 4, 7, 10, 8, 6, 7, 8, 7, 5, 5, 9, 14, 12, 10, 11, 13, 12, 11,
        15, 14, 13, 14, 15, 16, 15, 14, 13, 12, 13, 14>>>>

(* a 9-bar frame whose row 2 is both a top and a bottom, with a bottom at row 6 *)
BothKindsFrame ==
    <<<<3, 4, 5, 4, 3, 3, 4, 3, 3>>, <<3, 2, 1, 2, 3, 2, 1, 2, 3>>>>

ChartFixtures == {ZigzagFrame, BothKindsFrame}

InitChart ==
    /\ AnalysisIdle
    /\ MinuteIdle
    /\ \/ \E n \in 1..NChartBars : \E f \in [1..n -> Bars] :
             /\ chart_high = [i \in 1..n |-> f[i][1]]
             /\ chart_low = [i \in 1..n |-> f[i][2]]
       \/ \E f \in ChartFixtures : chart_high = f[1] /\ chart_low = f[2]
    /\ top_fractal = <<>> /\ bottom_fractal = <<>>
    /\ chart_pens = <<>> /\ chart_segments = <<>> /\ zhongshus = <<>>
    /\ chart_pc = "identify_fractals"

SpecChart == InitChart /\ [][NextChart]_vars

----------------------------------------------------------------------------
(* Properties of the stages *)

HasFractalAt(fs, i) == \E n \in 1..Len(fs) : fs[n].index = i
IndicesOf(fs) == [n \in 1..Len(fs) |-> fs[n].index]

(* C1: the list returned by filter_fractals never holds two consecutive       *)
(* fractals of the same kind.                                                 *)
C1_FractalsAlternate ==
    \A n \in 1..(Len(filtered_fractals) - 1) :
        filtered_fractals[n].type # filtered_fractals[n + 1].type

(* filter_fractals has returned at least two fractals after dropping candidates *)
C1_Witness ==
    /\ pc = "divide_pens"
    /\ Len(filtered_fractals) >= 2
    /\ Len(TopFractals(highs, bar_count)) + Len(BottomFractals(lows, bar_count))
          > Len(filtered_fractals)

(* C2: in the list returned by validate_pens no two consecutive pens share a  *)
(* direction.                                                                 *)
C2_PensAlternate ==
    \A n \in 1..(Len(valid_pens) - 1) :
        valid_pens[n].direction # valid_pens[n + 1].direction

(* C3: every pen returned by validate_pens is one of the pens divide_pens      *)
(* built, unchanged, and its price_change_percent is at least the threshold.  *)
C3_PensMeetThreshold ==
    \A n \in 1..Len(valid_pens) :
        /\ FracGE(valid_pens[n].price_change_percent, threshold)
        /\ \E m \in 1..Len(divided_pens) : divided_pens[m] = valid_pens[n]

(* validate_pens has returned pens, fewer than divide_pens built, and          *)
(* divide_pens skipped a fractal below the threshold                          *)
C3_Witness ==
    /\ pc = "divide_segments"
    /\ Len(valid_pens) >= 1
    /\ Len(valid_pens) < Len(divided_pens)
    /\ Len(divided_pens) < Len(filtered_fractals) - 1

C5_CentralBandValid == central # None => central.low < central.high

(* C6: every segment returned by divide_segments has at least 3 member pens.  *)
C6_SegmentsHaveThreePens ==
    \A n \in 1..Len(ret_segments) : Len(ret_segments[n].pens) >= 3

(* C7: the member pens of every segment returned by divide_segments are a     *)
(* contiguous sub-sequence of the validated pen list.                         *)
C7_SegmentPensContiguous ==
    \A n \in 1..Len(ret_segments) :
        \E a \in 1..Len(valid_pens) :
            /\ a + Len(ret_segments[n].pens) - 1 <= Len(valid_pens)
            /\ ret_segments[n].pens = SubSeq(valid_pens, a, a + Len(ret_segments[n].pens) - 1)

(* C8: when the central built from a window overlaps (_centrals_overlap) a    *)
(* central already in the list, the list does not grow; the first such        *)
(* central gets the lower low, the higher high, the later end_index and its   *)
(* pens followed by the new central's pens; the other centrals are untouched. *)
C8_MergeRule ==
    [][(pc = "centrals_loop" /\ cen_i' = cen_i + 1 /\ central' # None
            /\ \E n \in 1..Len(centrals) : CentralsOverlap(centrals[n], central'))
        => LET n == CHOOSE m \in 1..Len(centrals) :
                       /\ CentralsOverlap(centrals[m], central')
                       /\ \A o \in 1..(m - 1) : ~CentralsOverlap(centrals[o], central')
           IN  /\ Len(centrals') = Len(centrals)
               /\ centrals'[n].low = Min2(centrals[n].low, central'.low)
               /\ centrals'[n].high = Max2(centrals[n].high, central'.high)
               /\ centrals'[n].end_index = Max2(centrals[n].end_index, central'.end_index)
               /\ centrals'[n].pens = centrals[n].pens \o central'.pens
               /\ \A m \in 1..Len(centrals) : m # n => centrals'[m] = centrals[m]]_vars

(* a window's central has just been merged into the first of two centrals     *)
C8_Witness ==
    /\ pc = "centrals_loop"
    /\ central # None
    /\ Len(centrals) >= 2
    /\ Len(centrals[1].pens) > MinPens
    /\ SubSeq(centrals[1].pens, Len(centrals[1].pens) - MinPens + 1, Len(centrals[1].pens))
          = central.pens

(* C9: no two centrals of the list returned by identify_centrals overlap      *)
(* (_centrals_overlap).                                                       *)
C9_NoOverlappingCentrals ==
    pc = "done" =>
        \A a \in 1..Len(ret_centrals) : \A b \in 1..Len(ret_centrals) :
            a # b => ~CentralsOverlap(ret_centrals[a], ret_centrals[b])

(* C10: running the stage sequence a second time on the same series and     *)
(* thresholds, on the same analyzer or on a new one, ends with the same       *)
(* fractal, pen, segment and central collections as the first run.            *)
C10_RerunSameOutputs == (pc = "done" /\ run >= 2) => Outputs = first.outputs

(* a second run on the same analyzer has ended with pens, segments and centrals *)
C10_Witness ==
    /\ pc = "done"
    /\ run = 2
    /\ ~first.fresh
    /\ Len(valid_pens) >= 4
    /\ Len(ret_segments) >= 1
    /\ Len(ret_centrals) >= 1

(* C11: the pens, segments and centrals produced for a series on an analyzer *)
(* that has analysed a different series before are those a newly            *)
(* constructed analyzer produces for it.                                    *)
C11_ReuseSameResults == (pc = "done" /\ run = 3) => Results = first.results

(* the stages main has been through when it is at a given position *)
AfterDividePens == Stages \ {"identify_fractals", "filter_fractals", "divide_pens"}
AfterValidatePens == AfterDividePens \ {"validate_pens", "validate_pass3"}
AfterDivideSegments == AfterValidatePens \ {"divide_segments", "segments_loop"}

(* C12: on a new analyzer, when filter_fractals returns fewer than 2 fractals *)
(* divide_pens, validate_pens, divide_segments and identify_centrals each     *)
(* return an empty list; when validate_pens returns fewer than 3 pens,        *)
(* divide_segments and identify_centrals each return an empty list.           *)
C12_DegradesToEmpty ==
    /\ (pc \in AfterDividePens /\ Len(filtered_fractals) < 2) =>
          /\ divided_pens = <<>>
          /\ pc \in AfterValidatePens => valid_pens = <<>>
          /\ pc \in AfterDivideSegments => ret_segments = <<>>
          /\ pc = "done" => ret_centrals = <<>>
    /\ (pc \in AfterValidatePens /\ Len(valid_pens) < 3) =>
          /\ pc \in AfterDivideSegments => ret_segments = <<>>
          /\ pc = "done" => ret_centrals = <<>>

(* the stage sequence has ended on a series that gave two validated pens *)
C12_Witness ==
    /\ pc = "done"
    /\ run = 1
    /\ Len(filtered_fractals) >= 3
    /\ Len(valid_pens) = 2
    /\ ret_segments = <<>>
    /\ ret_centrals = <<>>

(* C13: identify_fractals never records the same bar index as both a top     *)
(* fractal and a bottom fractal.                                             *)
C13_NoBarBothKinds ==
    pc = "filter_fractals" =>
        \A i \in 0..(Len(highs) - 1) :
            ~(HasFractalAt(top_fractals, i) /\ HasFractalAt(bottom_fractals, i))

(* C14: for Scenario B with bar_count = 2 and the default threshold the stage *)
(* sequence ends with exactly one top fractal, at the turn (bar 9), exactly   *)
(* one up pen followed by one down pen, no segment and no central.            *)
C14_ScenarioB ==
    (pc = "done" /\ <<highs, lows>> = ScenarioB /\ bar_count = 2 /\ threshold = <<1, 200>>) =>
        /\ IndicesOf(top_fractals) = <<9>>
        /\ Directions(valid_pens) = <<"up", "down">>
        /\ ret_segments = <<>>
        /\ ret_centrals = <<>>

(* some two pens of the group have intersecting price ranges *)
RangesOverlap(g) ==
    \E a \in 1..Len(g) : \E b \in (a + 1)..Len(g) :
        ~(\/ Max2(g[a].start_price, g[a].end_price) < Min2(g[b].start_price, g[b].end_price)
          \/ Min2(g[a].start_price, g[a].end_price) > Max2(g[b].start_price, g[b].end_price))

(* the window identify_centrals has just looked at *)
LastWindow == PenGroup(pens, cen_i - 1, min_pens)

(* C15: for a window of three validated pens with directions up, down, up    *)
(* whose price ranges overlap, identify_centrals builds a central of type    *)
(* "up" with high = the lowest of the three pens' highs and low = the        *)
(* highest of their lows, and that central is appended to the list or merged *)
(* into one of its centrals; down, up, down gives type "down" the same way.  *)
C15_PatternCentral ==
    (pc = "centrals_loop" /\ cen_i >= 1 /\ RangesOverlap(LastWindow)
        /\ Directions(LastWindow) \in {<<"up", "down", "up">>, <<"down", "up", "down">>}) =>
        /\ central # None
        /\ central.type = LastWindow[1].direction
        /\ central.pens = LastWindow
        /\ \A n \in 1..3 : central.high <= Max2(LastWindow[n].start_price, LastWindow[n].end_price)
        /\ \E n \in 1..3 : central.high = Max2(LastWindow[n].start_price, LastWindow[n].end_price)
        /\ \A n \in 1..3 : central.low >= Min2(LastWindow[n].start_price, LastWindow[n].end_price)
        /\ \E n \in 1..3 : central.low = Min2(LastWindow[n].start_price, LastWindow[n].end_price)
        /\ \E n \in 1..Len(centrals) :
              /\ centrals[n].low <= central.low
              /\ centrals[n].high >= central.high
              /\ Len(centrals[n].pens) >= 3
              /\ SubSeq(centrals[n].pens, Len(centrals[n].pens) - 2, Len(centrals[n].pens))
                    = LastWindow

(* a central of type "up" with a proper band has just been built from an    *)
(* up, down, up window whose three pens differ in their highs               *)
C15_Witness ==
    /\ pc = "centrals_loop"
    /\ cen_i >= 1
    /\ central # None
    /\ central.type = "up"
    /\ Directions(LastWindow) = <<"up", "down", "up">>
    /\ central.low < central.high
    /\ central.high < LastWindow[3].end_price

(* C16: divide_pens never returns a pen whose start and end prices are equal, *)
(* whatever threshold_percent it is given (a threshold of 0 included, which   *)
(* is to be refused).                                                         *)
C16_NoZeroChangePen ==
    pc \in AfterDividePens =>
        \A n \in 1..Len(divided_pens) : divided_pens[n].start_price # divided_pens[n].end_price

(* the kline request failed: it raised, or gave no data *)
RetrievalFailed ==
    \/ response.kind \in {"raises", "status", "no_data"}
    \/ response.kind = "klines" /\ response.klines = <<>>

(* C17: get_minute_data falls back to simulated data exactly when retrieval  *)
(* fails: if the kline request raises or gives no data,                      *)
(* generate_simulation_data is called exactly once, with (symbol, days), and *)
(* its result is returned; if the request gives rows,                        *)
(* generate_simulation_data is not called and the downloaded data is         *)
(* returned.                                                                 *)
C17_FallbackExactly ==
    gm_pc = "returned" =>
        IF RetrievalFailed
        THEN /\ Len(generated) = 1
             /\ Len(generated[1]) = 2
             /\ generated[1][1] = symbol
             /\ generated[1][2] = days
             /\ df = Simulation(generated[1])
        ELSE /\ generated = <<>>
             /\ df.source = "download"

(* the member pens of the segment on whose side the pen's end price lies  *)
(* beyond their extreme: below min(start, end) for an up segment, above   *)
(* max(start, end) for a down segment                                     *)
PensBeyond(segment, pen) ==
    {n \in 1..Len(segment.pens) :
        IF segment.direction = "up"
        THEN pen.end_price < Min2(segment.pens[n].start_price, segment.pens[n].end_price)
        ELSE pen.end_price > Max2(segment.pens[n].start_price, segment.pens[n].end_price)}

(* divide_segments takes the pen at seg_i as breaking the open segment *)
BreakTaken ==
    /\ pc = "segments_loop" /\ seg_i' = seg_i + 1 /\ current_segments # <<>>
    /\ Len(current_segments') = Len(current_segments) + 1

(* divide_segments takes the pen at seg_i as not breaking the open segment *)
BreakNotTaken ==
    /\ pc = "segments_loop" /\ seg_i' = seg_i + 1 /\ current_segments # <<>>
    /\ Len(current_segments') = Len(current_segments)

StartPos(pen) ==
    CHOOSE a \in 1..Len(filtered_fractals) :
        filtered_fractals[a] =
            [index |-> pen.start_index, price |-> pen.start_price, type |-> pen.start_type]
EndPos(pen) ==
    CHOOSE b \in 1..Len(filtered_fractals) :
        filtered_fractals[b] =
            [index |-> pen.end_index, price |-> pen.end_price, type |-> pen.end_type]

(* C19: for a threshold above 0 the pens divide_pens returns form a chain:   *)
(* the first pen starts at the first fractal, every later pen starts at the  *)
(* fractal the pen before it ended at, every fractal of the list strictly    *)
(* between a pen's start and end changed the price by less than the          *)
(* threshold relative to the pen's start, and a pen's direction is "up"      *)
(* exactly when its end price is above its start price, whatever the kinds   *)
(* of its two fractals.                                                      *)
C19_PensChain ==
    (pc \in AfterDividePens /\ threshold[1] > 0) =>
        /\ divided_pens # <<>> => StartPos(divided_pens[1]) = 1
        /\ \A n \in 1..Len(divided_pens) :
              LET pen == divided_pens[n]
              IN  /\ \E a \in 1..Len(filtered_fractals) : \E b \in (a + 1)..Len(filtered_fractals) :
                        /\ a = StartPos(pen) /\ b = EndPos(pen)
                        /\ filtered_fractals[a].index = pen.start_index
                        /\ filtered_fractals[b].index = pen.end_index
                        /\ filtered_fractals[a].price = pen.start_price
                        /\ filtered_fractals[b].price = pen.end_price
                        /\ \A c \in (a + 1)..(b - 1) :
                              Abs(filtered_fractals[c].price - pen.start_price) * threshold[2]
                                  < threshold[1] * pen.start_price
                  /\ n > 1 => StartPos(pen) = EndPos(divided_pens[n - 1])
                  /\ (pen.direction = "up") <=> (pen.end_price > pen.start_price)
                  /\ pen.direction \in {"up", "down"}

(* divide_pens has returned two pens or more, one of them passing over a     *)
(* fractal and joining two fractals of the same kind                         *)
C19_Witness ==
    /\ pc = "validate_pens"
    /\ threshold[1] > 0
    /\ Len(divided_pens) >= 2
    /\ \E n \in 1..Len(divided_pens) :
          /\ EndPos(divided_pens[n]) > StartPos(divided_pens[n]) + 1
          /\ divided_pens[n].start_type = divided_pens[n].end_type

(* the candidates of filter_fractals in index order: for each bar in turn its *)
(* top fractal, then its bottom fractal, where identify_fractals finds them   *)
InFractalRange(i) == bar_count <= i /\ i < Len(highs) - bar_count

RECURSIVE CandidatesBefore(_)
CandidatesBefore(i) ==
    IF i = 0 THEN <<>>
    ELSE CandidatesBefore(i - 1)
            \o (IF InFractalRange(i - 1) /\ IsTop(highs, i - 1, bar_count)
                THEN <<[index |-> i - 1, price |-> highs[i], type |-> "top"]>> ELSE <<>>)
            \o (IF InFractalRange(i - 1) /\ IsBottom(lows, i - 1, bar_count)
                THEN <<[index |-> i - 1, price |-> lows[i], type |-> "bottom"]>> ELSE <<>>)

Candidates == CandidatesBefore(Len(highs))

(* first positions of the maximal runs of one kind in the candidate list c *)
RunStarts(c) == {a \in 1..Len(c) : a = 1 \/ c[a - 1].type # c[a].type}

(* last position of the run of c that starts at a *)
RunEnd(c, a) ==
    CHOOSE b \in a..Len(c) :
        /\ \A j \in a..b : c[j].type = c[a].type
        /\ b = Len(c) \/ c[b + 1].type # c[a].type

(* the number of the run of c that starts at a *)
RunNumber(c, a) == Cardinality({r \in RunStarts(c) : r <= a})

(* C20: filter_fractals returns one fractal for each maximal run of           *)
(* consecutive candidates of one kind, in the order of the runs: the          *)
(* candidate of the run with the highest price for tops, the lowest price for *)
(* bottoms, and the earliest of them when several have that price; the        *)
(* returned list is in non-decreasing index order.                            *)
C20_RunsCollapsed ==
    pc = "divide_pens" =>
        LET c == Candidates
        IN  /\ Len(filtered_fractals) = Cardinality(RunStarts(c))
            /\ \A a \in RunStarts(c) :
                  LET kept == filtered_fractals[RunNumber(c, a)]
                  IN  \E m \in a..RunEnd(c, a) :
                         /\ kept = c[m]
                         /\ \A j \in a..RunEnd(c, a) :
                               IF kept.type = "top"
                               THEN c[j].price <= kept.price
                               ELSE c[j].price >= kept.price
                         /\ \A j \in a..(m - 1) : c[j].price # kept.price
            /\ \A n \in 1..(Len(filtered_fractals) - 1) :
                  filtered_fractals[n].index <= filtered_fractals[n + 1].index

(* filter_fractals has returned from candidates with a run whose extreme      *)
(* price is held by two candidates, and a run whose later candidate is kept   *)
C20_Witness ==
    /\ pc = "divide_pens"
    /\ LET c == Candidates
       IN  /\ \E a \in RunStarts(c) : \E j \in a..RunEnd(c, a) : \E m \in a..RunEnd(c, a) :
                 /\ j < m
                 /\ filtered_fractals[RunNumber(c, a)] = c[j]
                 /\ c[m].price = c[j].price
           /\ \E a \in RunStarts(c) : filtered_fractals[RunNumber(c, a)] # c[a]

(* the pen has a strictly larger price_change_percent than the kept pen and *)
(* a strictly more extreme end price in their common direction             *)
Outdoes(pen, kept) ==
    /\ kept.price_change_percent[1] * pen.price_change_percent[2]
          < pen.price_change_percent[1] * kept.price_change_percent[2]
    /\ IF pen.direction = "up" THEN pen.end_price > kept.end_price
                               ELSE pen.end_price < kept.end_price

(* what Pass 1 has kept of the first n pens validate_pens is given *)
Pass1Kept(n) == Pass1(SubSeq(pens, 1, n))

(* C21: Pass 1 of validate_pens starts from the first pen; a pen of the     *)
(* direction opposite to the last kept pen is appended; a pen of the same   *)
(* direction replaces the last kept pen when it has both a strictly larger  *)
(* price_change_percent and a strictly more extreme end price, and is       *)
(* dropped otherwise; the list Pass 1 yields alternates strictly.           *)
C21_Pass1Repair ==
    (pc = "validate_pens" /\ Len(pens) >= 2) =>
        /\ Pass1Kept(1) = <<pens[1]>>
        /\ \A n \in 2..Len(pens) :
              LET before == Pass1Kept(n - 1)
                  kept == before[Len(before)]
              IN  Pass1Kept(n) =
                      IF pens[n].direction # kept.direction THEN before \o <<pens[n]>>
                      ELSE IF Outdoes(pens[n], kept)
                           THEN SubSeq(before, 1, Len(before) - 1) \o <<pens[n]>>
                           ELSE before
        /\ \A m \in 1..(Len(Pass1Kept(Len(pens))) - 1) :
              Pass1Kept(Len(pens))[m].direction # Pass1Kept(Len(pens))[m + 1].direction

(* validate_pens is given pens of which Pass 1 drops one and lets another   *)
(* replace the kept pen                                                     *)
C21_Witness ==
    /\ pc = "validate_pens"
    /\ Len(pens) >= 3
    /\ \E n \in 2..Len(pens) :
          /\ pens[n].direction = Pass1Kept(n - 1)[Len(Pass1Kept(n - 1))].direction
          /\ Pass1Kept(n) = Pass1Kept(n - 1)
    /\ \E n \in 2..Len(pens) :
          /\ Len(Pass1Kept(n)) = Len(Pass1Kept(n - 1))
          /\ Pass1Kept(n)[Len(Pass1Kept(n))] = pens[n]

(* positions a of final_pens whose triple (a, a + 1, a + 2) is not of the    *)
(* form prev.direction = next.direction # curr.direction                     *)
BadTriples ==
    {a \in 1..(Len(final_pens) - 2) :
        ~(/\ final_pens[a].direction = final_pens[a + 2].direction
          /\ final_pens[a].direction # final_pens[a + 1].direction)}

(* position r holds a smallest price_change_percent among a, a + 1, a + 2 *)
SmallestOfTriple(r, a) ==
    /\ r \in a..(a + 2)
    /\ \A o \in a..(a + 2) :
          final_pens[r].price_change_percent[1] * final_pens[o].price_change_percent[2]
              <= final_pens[o].price_change_percent[1] * final_pens[r].price_change_percent[2]

(* C22: Pass 3 of validate_pens makes at most 5 scans; a scan that finds no  *)
(* bad triple changes nothing and ends the loop; any other scan removes one  *)
(* pen, a pen with the smallest price_change_percent of the first bad        *)
(* triple; the loop is left only after such a clean scan or after the 5th    *)
(* scan, with at most 5 pens removed. Every scan raises iterations, which   *)
(* never passes 5, so the loop cannot go on for ever.                        *)
C22_Pass3Bounded ==
    [][/\ (pc = "validate_pass3" /\ pc' = "validate_pass3" /\ iterations' # iterations) =>
            /\ iterations < 5
            /\ iterations' = iterations + 1
            /\ IF BadTriples = {}
               THEN final_pens' = final_pens /\ all_alternating'
               ELSE /\ ~all_alternating'
                    /\ \E a \in BadTriples : \E r \in a..(a + 2) :
                          /\ \A b \in BadTriples : a <= b
                          /\ SmallestOfTriple(r, a)
                          /\ final_pens' = [j \in 1..(Len(final_pens) - 1) |->
                                               IF j < r THEN final_pens[j]
                                                        ELSE final_pens[j + 1]]
       /\ (pc = "validate_pass3" /\ pc' # "validate_pass3") =>
            /\ all_alternating \/ iterations = 5
            /\ valid_pens' = final_pens
            /\ Len(final_pens) + 5 >= Len(Pass2(Pass1(pens)))
            /\ Len(final_pens) + iterations >= Len(Pass2(Pass1(pens)))]_vars

(* Pass 3 has removed a pen in one scan and found nothing to remove in the   *)
(* next one, and on another series has used up its 5 scans with a bad        *)
(* triple left                                                               *)
C22_Witness ==
    /\ pc = "validate_pass3"
    /\ \/ /\ iterations \in 2..4
          /\ all_alternating
          /\ Len(final_pens) < Len(Pass2(Pass1(pens)))
       \/ /\ iterations = 5
          /\ ~all_alternating
          /\ BadTriples # {}
          /\ Len(final_pens) + 5 = Len(Pass2(Pass1(pens)))

(* C23: when validate_pens was given at least 2 pens, every pen it returns *)
(* spans at least one bar, |end_index - start_index| >= 1, and no given pen *)
(* that starts and ends on one bar index is in what it returns              *)
C23_NoZeroLengthPen ==
    (pc \in AfterValidatePens /\ Len(divided_pens) >= 2) =>
        /\ \A i \in 1..Len(valid_pens) :
              Abs(valid_pens[i].end_index - valid_pens[i].start_index) >= 1
        /\ \A j \in 1..Len(divided_pens) :
              divided_pens[j].start_index = divided_pens[j].end_index =>
                 \A i \in 1..Len(valid_pens) : valid_pens[i] # divided_pens[j]

(* validate_pens was given a pen on one bar index among at least 2 pens and *)
(* has returned other pens                                                   *)
C23_Witness ==
    /\ pc \in AfterValidatePens
    /\ Len(divided_pens) >= 2
    /\ \E j \in 1..Len(divided_pens) : divided_pens[j].start_index = divided_pens[j].end_index
    /\ valid_pens # <<>>

(* the pen at seg_i breaks the open segment: opposite direction and an end *)
(* price beyond a member pen                                               *)
BreaksOpenSegment ==
    /\ current_segments # <<>>
    /\ pens[seg_i + 1].direction # current_segments[Len(current_segments)].direction
    /\ PensBeyond(current_segments[Len(current_segments)], pens[seg_i + 1]) # {}

(* C24: in the loop of divide_segments a breaking pen appends a segment of *)
(* the opposite direction whose pens are the last pen of the broken segment *)
(* and the breaking pen, and leaves the broken segment as it is; a step of  *)
(* the loop changes no segment but the last one, removes none and changes   *)
(* no direction; the list returned is the one the loop built.               *)
C24_BrokenSegmentFrozen ==
    [][/\ (pc = "segments_loop" /\ seg_i' = seg_i + 1) =>
            /\ Len(current_segments') >= Len(current_segments)
            /\ \A n \in 1..Len(current_segments) :
                  /\ current_segments'[n].direction = current_segments[n].direction
                  /\ n < Len(current_segments) => current_segments'[n] = current_segments[n]
            /\ BreaksOpenSegment =>
                  LET last == current_segments[Len(current_segments)]
                      new  == current_segments'[Len(current_segments) + 1]
                  IN  /\ Len(current_segments') = Len(current_segments) + 1
                      /\ current_segments'[Len(current_segments)] = last
                      /\ new.direction # last.direction
                      /\ new.direction \in {"up", "down"}
                      /\ new.pens = <<last.pens[Len(last.pens)], pens[seg_i + 1]>>
       /\ (pc = "segments_loop" /\ pc' # "segments_loop") =>
            ret_segments' = current_segments]_vars

(* a segment was broken, and the segment opened by the break has been *)
(* extended by a later pen                                            *)
C24_Witness ==
    /\ pc = "segments_loop"
    /\ Len(current_segments) >= 2
    /\ Len(current_segments[Len(current_segments)].pens) >= 3

(* the directions d hold the three directions p at consecutive positions *)
HoldsPattern(d, p) == \E n \in 1..(Len(d) - 2) : SubSeq(d, n, n + 2) = p

(* C25: with min_pens > 3, a window of overlapping pens that holds up, down, *)
(* up at consecutive positions gives a central, and the central's type is "up" *)
(* only if the window holds up, down, up, "down" only if it holds down, up,    *)
(* down, and "neutral" only if it holds neither.                               *)
C25_TypeFromAnyTriple ==
    (pc = "centrals_loop" /\ cen_i >= 1 /\ min_pens > 3) =>
        LET d == Directions(LastWindow)
            anyUp   == HoldsPattern(d, <<"up", "down", "up">>)
            anyDown == HoldsPattern(d, <<"down", "up", "down">>)
        IN  /\ (RangesOverlap(LastWindow) /\ (anyUp \/ anyDown)) => central # None
            /\ central # None =>
                  /\ central.type = "up" => anyUp
                  /\ central.type = "down" => anyDown
                  /\ central.type = "neutral" => ~anyUp /\ ~anyDown

(* the pens of chart_pens at the 0-based indices of z.pens *)
MemberPens(z) == [k \in 1..Len(z.pens) |-> chart_pens[z.pens[k] + 1]]

(* C26: every central identify_zhongshu returns has low < high; its pens are *)
(* the consecutive indices i..j of the pen list with j >= i + 2; its high is *)
(* the lowest high and its low the highest low of its pens; and the pen after *)
(* j, if there is one, does not have high > low of the band and low < high of *)
(* the band.                                                                  *)
C26_ZhongshuBand ==
    chart_pc = "plot" =>
        \A n \in 1..Len(zhongshus) :
            LET z == zhongshus[n]
                m == MemberPens(z)
                j == z.pens[Len(z.pens)]
            IN  /\ z.low < z.high
                /\ Len(z.pens) >= 3
                /\ z.pens[1] >= 0 /\ j < Len(chart_pens)
                /\ \A k \in 1..(Len(z.pens) - 1) : z.pens[k + 1] = z.pens[k] + 1
                /\ \A k \in 1..Len(m) : z.high <= m[k].high /\ z.low >= m[k].low
                /\ \E k \in 1..Len(m) : z.high = m[k].high
                /\ \E k \in 1..Len(m) : z.low = m[k].low
                /\ j + 1 < Len(chart_pens) =>
                      ~(chart_pens[j + 2].high > z.low /\ chart_pens[j + 2].low < z.high)

(* a central of more than three pens, narrower than its first pen, was    *)
(* stopped by a pen outside its band                                      *)
C26_Witness ==
    /\ chart_pc = "plot"
    /\ \E n \in 1..Len(zhongshus) :
          /\ Len(zhongshus[n].pens) >= 4
          /\ zhongshus[n].pens[Len(zhongshus[n].pens)] + 1 < Len(chart_pens)
          /\ zhongshus[n].high < chart_pens[zhongshus[n].pens[1] + 1].high
          /\ zhongshus[n].low > chart_pens[zhongshus[n].pens[1] + 1].low

(* the fractal points identify_pens collects from the frame *)
ChartFractals ==
    FractalPoints(chart_high, chart_low, top_fractal, bottom_fractal, Len(chart_high))

(* C27: the pens identify_pens returns go from a fractal of one kind to one *)
(* of the other kind and alternate strictly in direction, and               *)
(* identify_segments returns an empty list for them.                        *)
C27_ChartPensAlternate ==
    /\ chart_pc \in {"identify_segments", "identify_zhongshu", "plot"} =>
          /\ \A n \in 1..Len(chart_pens) : chart_pens[n].start.type # chart_pens[n].end.type
          /\ \A n \in 1..(Len(chart_pens) - 1) :
                chart_pens[n].direction # chart_pens[n + 1].direction
    /\ chart_pc \in {"identify_zhongshu", "plot"} => chart_segments = <<>>

(* identify_segments was given at least 3 pens, made from a frame with a   *)
(* fractal of the kind of the one before it                                 *)
C27_Witness ==
    /\ chart_pc = "plot"
    /\ Len(chart_pens) >= 3
    /\ \E n \in 1..(Len(ChartFractals) - 1) : ChartFractals[n].type = ChartFractals[n + 1].type

(* the bar indices identify_fractals records both as a top and as a bottom *)
BothKindsBars ==
    {i \in 0..(Len(highs) - 1) :
        /\ HasFractalAt(TopFractals(highs, bar_count), i)
        /\ HasFractalAt(BottomFractals(lows, bar_count), i)}

(* C28: when validate_pens is given at least 2 pens and every pen kept by  *)
(* Pass 1 has length >= 1, what validate_pens returns is the list Pass 1   *)
(* kept, and it alternates strictly in direction; every pen kept by Pass 1 *)
(* has length >= 1 when no bar is both a top and a bottom fractal.         *)
C28_CleanPassThrough ==
    (pc \in AfterValidatePens /\ Len(divided_pens) >= 2) =>
        LET kept == Pass1(divided_pens)
        IN  /\ BothKindsBars = {} => \A n \in 1..Len(kept) : kept[n].length >= 1
            /\ (\A n \in 1..Len(kept) : kept[n].length >= 1) =>
                  /\ valid_pens = kept
                  /\ \A n \in 1..(Len(valid_pens) - 1) :
                        valid_pens[n].direction # valid_pens[n + 1].direction

(* Pass 1 has dropped a pen, all the pens it kept have length >= 1, and *)
(* Pass 3 has scanned at least three of them                            *)
C28_Witness ==
    /\ pc \in AfterValidatePens
    /\ Len(divided_pens) >= 2
    /\ Len(Pass1(divided_pens)) < Len(divided_pens)
    /\ \A n \in 1..Len(Pass1(divided_pens)) : Pass1(divided_pens)[n].length >= 1
    /\ Len(valid_pens) >= 3

(* C29: the pens divide_pens returns and the pens validate_pens returns are *)
(* ordered in time without overlap: no pen ends before it starts, a pen of  *)
(* divide_pens starts on the bar where the pen before it ends, and a pen of *)
(* validate_pens starts on that bar or on a later one.                      *)
C29_PensOrdered ==
    /\ pc \in AfterDividePens =>
          /\ \A n \in 1..Len(divided_pens) :
                divided_pens[n].start_index <= divided_pens[n].end_index
          /\ \A n \in 2..Len(divided_pens) :
                divided_pens[n].start_index = divided_pens[n - 1].end_index
    /\ pc \in AfterValidatePens =>
          /\ \A n \in 1..Len(valid_pens) :
                valid_pens[n].start_index <= valid_pens[n].end_index
          /\ \A n \in 2..Len(valid_pens) :
                valid_pens[n].start_index >= valid_pens[n - 1].end_index

(* validate_pens has returned two pens in a row with bars between them, *)
(* having dropped pens of the divide_pens list                          *)
C29_Witness ==
    /\ pc \in AfterValidatePens
    /\ Len(divided_pens) >= 3
    /\ \E n \in 2..Len(valid_pens) : valid_pens[n].start_index > valid_pens[n - 1].end_index

(* C30: every segment divide_segments returns starts on the bar where its  *)
(* first member pen starts and ends on the bar where its last member pen   *)
(* ends.                                                                   *)
C30_SegmentSpansPens ==
    pc \in AfterDivideSegments =>
        \A n \in 1..Len(ret_segments) :
            /\ ret_segments[n].start_index = ret_segments[n].pens[1].start_index
            /\ ret_segments[n].end_index
                  = ret_segments[n].pens[Len(ret_segments[n].pens)].end_index

====
